---- MODULE Spec2Model ----
(***************************************************************************)
(* Model of NLPProcessor (src/nlp_processor.py): the context windower      *)
(* _extract_context, the response classifier _parse_extraction_response,   *)
(* the keyword fallback _demo_extract_entities and the entry point          *)
(* extract_entities with its OAuth token state.                            *)
(*                                                                         *)
(* A Python str is a sequence of one-character strings.  A float is an     *)
(* integer number of hundredths (85 is 0.85).  Time is in seconds.         *)
(***************************************************************************)
EXTENDS Integers, Sequences, FiniteSets, TLC

VARIABLES
  text,            \* the source text argument of the current call
  response,        \* the decoded vendor response handed to the classifier
  offset,          \* _extract_context: offset argument
  length,          \* _extract_context: length argument
  context_window,  \* _extract_context: context_window argument
  client_id,       \* self.client_id is set (truthy)
  client_secret,   \* self.client_secret is set (truthy)
  access_token,    \* self.access_token
  token_expiry,    \* self.token_expiry
  now,             \* time.time()
  http,            \* what the two HTTP calls of the last extract_entities did
  op,              \* the operation that produced ret / ctx_ret
  ret,             \* outcome of the last classifier / fallback / entry call
  ctx_ret          \* return value of the last _extract_context call

vars == <<text, response, offset, length, context_window, client_id,
          client_secret, access_token, token_expiry, now, http, op, ret,
          ctx_ret>>

-----------------------------------------------------------------------------
(* Bounds of the model *)

MaxTextLen == 4      \* windower inputs: texts of up to this many characters
MaxOffset == 6       \* windower inputs: offsets in -MaxOffset..MaxOffset
MaxLength == 3       \* windower inputs: lengths in -MaxLength..MaxLength
MaxWindow == 3       \* windower inputs: radii in -1..MaxWindow
MaxEntities == 2     \* classifier inputs: responses of up to this many entities
MaxWords == 2        \* fallback inputs: texts of up to this many words
MaxTime == 3         \* entry point: the clock runs for MaxTime minutes

-----------------------------------------------------------------------------
(* Python str primitives *)

Max(a, b) == IF a >= b THEN a ELSE b
Min(a, b) == IF a <= b THEN a ELSE b

\* A string literal as the sequence of its characters
Chars(str) == [i \in 1..Len(str) |-> SubSeq(str, i, i)]

UpperAlpha == Chars("ABCDEFGHIJKLMNOPQRSTUVWXYZ")
LowerAlpha == Chars("abcdefghijklmnopqrstuvwxyz")

\* U+0130 (capital I with dot above) and U+0307 (combining dot above):
\* str.lower() maps the first to "i" followed by the second.
IDot == "U+0130"
CombiningDot == "U+0307"

Whitespace == {" ", "\n", "\t", "\r", "\f"}

IsUpper(c) == \E i \in 1..26 : UpperAlpha[i] = c
IsLower(c) == \E i \in 1..26 : LowerAlpha[i] = c
IsCased(c) == IsUpper(c) \/ IsLower(c) \/ c = IDot

LowerChar(c) ==
  IF IsUpper(c) THEN <<LowerAlpha[CHOOSE i \in 1..26 : UpperAlpha[i] = c]>>
  ELSE IF c = IDot THEN <<"i", CombiningDot>>
  ELSE <<c>>

UpperChar(c) ==
  IF IsLower(c) THEN UpperAlpha[CHOOSE i \in 1..26 : LowerAlpha[i] = c]
  ELSE c

RECURSIVE lower(_)
lower(s) == IF s = <<>> THEN <<>> ELSE LowerChar(Head(s)) \o lower(Tail(s))

upper(s) == [i \in 1..Len(s) |-> UpperChar(s[i])]

\* str.title(): a cased character is upper-cased when the previous character
\* is uncased (or there is none) and lower-cased otherwise.  Only applied to
\* the vocabulary terms, on which lower-casing keeps the length.
title(s) ==
  [i \in 1..Len(s) |->
     IF i = 1 \/ ~IsCased(s[i - 1]) THEN UpperChar(s[i])
     ELSE LowerChar(s[i])[1]]

strip(s) ==
  LET keep == {i \in 1..Len(s) : s[i] \notin Whitespace}
  IN  IF keep = {} THEN <<>>
      ELSE SubSeq(s, CHOOSE i \in keep : \A j \in keep : i <= j,
                     CHOOSE i \in keep : \A j \in keep : i >= j)

\* keyword in s
Contains(s, p) ==
  \E i \in 0..(Len(s) - Len(p)) : SubSeq(s, i + 1, i + Len(p)) = p

\* s.find(p): the lowest index (0-based) where p occurs, -1 when it does not
find(s, p) ==
  IF Contains(s, p)
  THEN CHOOSE i \in 0..(Len(s) - Len(p)) :
         /\ SubSeq(s, i + 1, i + Len(p)) = p
         /\ \A j \in 0..(i - 1) : SubSeq(s, j + 1, j + Len(p)) # p
  ELSE -1

replace(s, from, to) == [i \in 1..Len(s) |-> IF s[i] = from THEN to ELSE s[i]]

\* A slice bound as Python normalises it: a negative bound counts from the
\* end of the string, and the result is clamped to 0..n.
SliceIndex(i, n) ==
  IF i < 0 THEN Max(i + n, 0) ELSE Min(i, n)

\* s[a:b]
Slice(s, a, b) ==
  LET lo == SliceIndex(a, Len(s))
      hi == SliceIndex(b, Len(s))
  IN  IF hi <= lo THEN <<>> ELSE SubSeq(s, lo + 1, hi)

-----------------------------------------------------------------------------
(* _extract_context *)

Ellipsis == Chars("...")

_extract_context(t, off, len, window) ==
  IF t = <<>> THEN <<>>
  ELSE
    LET start == Max(0, off - window)
        end == Min(Len(t), off + len + window)
        context == strip(Slice(t, start, end))
        c1 == IF start > 0 THEN Ellipsis \o context ELSE context
        c2 == IF end < Len(t) THEN c1 \o Ellipsis ELSE c1
    IN  c2

-----------------------------------------------------------------------------
(* Decoded JSON values.  Every value has the same three fields: its Python  *)
(* type t, its characters s (str) and its number n (int; float in           *)
(* hundredths).  "absent" marks a key the dict does not have, "null" is     *)
(* None, "inf" and "nan" are the non-finite floats.                         *)

Absent == [t |-> "absent", s |-> <<>>, n |-> 0]
JNull == [t |-> "null", s |-> <<>>, n |-> 0]
JStr(str) == [t |-> "str", s |-> str, n |-> 0]
JInt(i) == [t |-> "int", s |-> <<>>, n |-> i]
JFloat(h) == [t |-> "float", s |-> <<>>, n |-> h]
JInf == [t |-> "inf", s |-> <<>>, n |-> 0]
JNaN == [t |-> "nan", s |-> <<>>, n |-> 0]

\* The 'imo' entry of an entity's codemaps, and the codemaps dict itself
Imo(code, title_, conf) ==
  [t |-> "dict", lexical_code |-> code, lexical_title |-> title_,
   confidence |-> conf]
AbsentImo ==
  [t |-> "absent", lexical_code |-> Absent, lexical_title |-> Absent,
   confidence |-> Absent]
NullImo ==
  [t |-> "null", lexical_code |-> Absent, lexical_title |-> Absent,
   confidence |-> Absent]
Codemaps(imo) == [t |-> "dict", imo |-> imo]
AbsentCodemaps == [t |-> "absent", imo |-> AbsentImo]
NullCodemaps == [t |-> "null", imo |-> AbsentImo]
EmptyDict == Codemaps(AbsentImo)

\* d.get(key, default), v being the value under key ("absent" if none)
get(v, default) == IF v.t = "absent" THEN default ELSE v

-----------------------------------------------------------------------------
(* float(x) *)

Digits == Chars("0123456789")
IsDigit(c) == \E i \in 1..10 : Digits[i] = c
DigitVal(c) == (CHOOSE i \in 1..10 : Digits[i] = c) - 1
IsDigits(s) == \A i \in 1..Len(s) : IsDigit(s[i])

RECURSIVE NatVal(_)
NatVal(s) ==
  IF s = <<>> THEN 0
  ELSE 10 * NatVal(SubSeq(s, 1, Len(s) - 1)) + DigitVal(s[Len(s)])

\* The fraction digits of a decimal literal, in hundredths (the model's
\* literals have at most two of them).
FracVal(s) ==
  IF Len(s) = 0 THEN 0
  ELSE IF Len(s) = 1 THEN 10 * DigitVal(s[1])
  ELSE NatVal(SubSeq(s, 1, 2))

\* float(str): surrounding whitespace is ignored; "inf", "infinity" and "nan"
\* in any case give the non-finite floats; a decimal literal gives its value;
\* anything else is a ValueError.  Exponent notation is not modelled.
FloatOfStr(str) ==
  LET w == strip(str)
      signed == w # <<>> /\ w[1] \in {"+", "-"}
      body == IF signed THEN Tail(w) ELSE w
      sign == IF signed /\ w[1] = "-" THEN -1 ELSE 1
      dots == {i \in 1..Len(body) : body[i] = "."}
      dot == CHOOSE i \in dots : TRUE
      whole == IF dots = {} THEN body ELSE SubSeq(body, 1, dot - 1)
      frac == IF dots = {} THEN <<>> ELSE SubSeq(body, dot + 1, Len(body))
  IN  IF lower(body) \in {Chars("inf"), Chars("infinity")}
        THEN [raised |-> FALSE, val |-> JInf]
      ELSE IF lower(body) = Chars("nan")
        THEN [raised |-> FALSE, val |-> JNaN]
      ELSE IF /\ Cardinality(dots) <= 1
              /\ IsDigits(whole) /\ IsDigits(frac)
              /\ Len(whole) + Len(frac) > 0
        THEN [raised |-> FALSE,
              val |-> JFloat(sign * (100 * NatVal(whole) + FracVal(frac)))]
      ELSE [raised |-> TRUE, val |-> JFloat(0)]

\* float(v): a float is itself, an int converts, a str is parsed (ValueError
\* when unparseable), None is a TypeError.
float(v) ==
  IF v.t \in {"float", "inf", "nan"} THEN [raised |-> FALSE, val |-> v]
  ELSE IF v.t = "int" THEN [raised |-> FALSE, val |-> JFloat(100 * v.n)]
  ELSE IF v.t = "str" THEN FloatOfStr(v.s)
  ELSE [raised |-> TRUE, val |-> JFloat(0)]

-----------------------------------------------------------------------------
(* _parse_extraction_response *)

Categories == {"problems", "procedures", "medications", "labs"}

\* entities = {'problems': [], 'procedures': [], 'medications': [], 'labs': []}
EmptyEntities ==
  [problems |-> <<>>, procedures |-> <<>>, medications |-> <<>>, labs |-> <<>>]

ignore_patterns ==
  << Chars("review test results"), Chars("patient education"),
     Chars("lifestyle"), Chars("education"), Chars("review"),
     Chars("follow-up"), Chars("follow up"), Chars("appointment"),
     Chars("monitoring"), Chars("discussion"), Chars("counseling"),
     Chars("instructions"), Chars("recommendations"), Chars("assessment"),
     Chars("plan") >>

\* Mutant: the text is compared with the patterns instead of searched
MatchesIgnorePattern_Exact(entity_text) ==
  \E k \in 1..Len(ignore_patterns) : entity_text = ignore_patterns[k]

\* any(pattern in entity_text for pattern in ignore_patterns)
MatchesIgnorePattern(entity_text) ==
  \E k \in 1..Len(ignore_patterns) : Contains(entity_text, ignore_patterns[k])

\* Mutant: only the assertion "absent" is turned away
IsPresent_NotAbsent(assertion) == lower(assertion) # Chars("absent")

\* assertion = entity.get('assertion', '').lower(); assertion == 'present'
IsPresent(assertion) == lower(assertion) = Chars("present")

ParseContextWindow == 200

\* Mutant: the branches are tested in the opposite order
MapCategory_Reversed(category) ==
  IF \/ Contains(category, Chars("lab"))
     \/ Contains(category, Chars("observation"))
     \/ Contains(category, Chars("test"))
    THEN "labs"
  ELSE IF \/ Contains(category, Chars("medication"))
          \/ Contains(category, Chars("drug"))
    THEN "medications"
  ELSE IF Contains(category, Chars("procedure")) THEN "procedures"
  ELSE IF \/ Contains(category, Chars("problem"))
          \/ Contains(category, Chars("condition"))
          \/ Contains(category, Chars("diagnosis"))
    THEN "problems"
  ELSE "none"

\* The if/elif chain on the lower-cased semantic label; "none" when no branch
\* is taken and the record is appended nowhere.
MapCategory(category) ==
  IF \/ Contains(category, Chars("problem"))
     \/ Contains(category, Chars("condition"))
     \/ Contains(category, Chars("diagnosis"))
    THEN "problems"
  ELSE IF Contains(category, Chars("procedure")) THEN "procedures"
  ELSE IF \/ Contains(category, Chars("medication"))
          \/ Contains(category, Chars("drug"))
    THEN "medications"
  ELSE IF \/ Contains(category, Chars("lab"))
          \/ Contains(category, Chars("observation"))
          \/ Contains(category, Chars("test"))
    THEN "labs"
  ELSE "none"

\* The entity_data dict built for an entity that passed both filters
EntityData(entity, off, len, context, imo_code, imo_description, confidence) ==
  [text |-> get(entity.text, JStr(<<>>)),
   code |-> imo_code,
   code_system |-> JStr(Chars("IMO")),
   description |-> imo_description,
   offset |-> off,
   length |-> JInt(len),
   confidence |-> confidence,
   context |-> JStr(context),
   entity_id |-> get(entity.id, JStr(<<>>)),
   semantic |-> get(entity.semantic, JStr(<<>>)),
   assertion |-> get(entity.assertion, JStr(<<>>)),
   codemaps |-> IF entity.codemaps.t = "absent" THEN EmptyDict
                ELSE entity.codemaps]

Raised == [raised |-> TRUE, cat |-> "none", data |-> <<>>]
Skipped == [raised |-> FALSE, cat |-> "none", data |-> <<>>]

\* One iteration of the loop over response['entities']: the exception it
\* raises, or the category the record is appended to ("none": skipped by a
\* filter or matched by no branch) with the record.
ParseEntity(entity, original_text) ==
  LET assertion == get(entity.assertion, JStr(<<>>))
      etext == get(entity.text, JStr(<<>>))
      semantic == get(entity.semantic, JStr(<<>>))
      off == get(entity.begin, JInt(0))
      end_offset == get(entity.end, JInt(0))
      len == end_offset.n - off.n
      context == _extract_context(original_text, off.n, len, ParseContextWindow)
      has_imo == entity.codemaps.t = "dict" /\ entity.codemaps.imo.t # "absent"
      imo_data == entity.codemaps.imo
      conf == IF has_imo THEN float(get(imo_data.confidence, JFloat(0)))
              ELSE [raised |-> FALSE, val |-> JFloat(0)]
  IN  \* entity.get('assertion', '').lower(): AttributeError unless a str
      IF assertion.t # "str" THEN Raised
      ELSE IF ~IsPresent(assertion.s) THEN Skipped
      \* entity.get('text', '').lower().strip()
      ELSE IF etext.t # "str" THEN Raised
      ELSE IF MatchesIgnorePattern(strip(lower(etext.s))) THEN Skipped
      \* entity.get('semantic', '').lower()
      ELSE IF semantic.t # "str" THEN Raised
      \* end_offset - offset: TypeError unless both are numbers
      ELSE IF off.t # "int" \/ end_offset.t # "int" THEN Raised
      \* 'imo' in entity['codemaps']: TypeError when codemaps is None
      ELSE IF entity.codemaps.t = "null" THEN Raised
      \* imo_data.get(...): AttributeError when the imo entry is None
      ELSE IF has_imo /\ imo_data.t = "null" THEN Raised
      ELSE IF conf.raised THEN Raised
      ELSE [raised |-> FALSE,
            cat |-> MapCategory(lower(semantic.s)),
            data |-> EntityData(entity, off, len, context,
                       IF has_imo THEN get(imo_data.lexical_code, JStr(<<>>))
                       ELSE JStr(<<>>),
                       IF has_imo THEN get(imo_data.lexical_title, JStr(<<>>))
                       ELSE JStr(<<>>),
                       conf.val)]

\* Mutant: a record is inserted at the front of its category list
RECURSIVE ParseLoop_Prepend(_, _, _)
ParseLoop_Prepend(ents, k, original_text) ==
  IF k = 0 THEN [raised |-> FALSE, entities |-> EmptyEntities]
  ELSE
    LET before == ParseLoop_Prepend(ents, k - 1, original_text)
        step == ParseEntity(ents[k], original_text)
    IN  IF before.raised THEN before
        ELSE IF step.raised THEN [raised |-> TRUE, entities |-> EmptyEntities]
        ELSE IF step.cat = "none" THEN before
        ELSE [raised |-> FALSE,
              entities |-> [before.entities EXCEPT
                              ![step.cat] = <<step.data>> \o @]]

\* The loop over the first k entities: the dict of category lists built so
\* far, or the exception that ended the call.
RECURSIVE ParseLoop(_, _, _)
ParseLoop(ents, k, original_text) ==
  IF k = 0 THEN [raised |-> FALSE, entities |-> EmptyEntities]
  ELSE
    LET before == ParseLoop(ents, k - 1, original_text)
        step == ParseEntity(ents[k], original_text)
    IN  IF before.raised THEN before
        ELSE IF step.raised THEN [raised |-> TRUE, entities |-> EmptyEntities]
        ELSE IF step.cat = "none" THEN before
        ELSE [raised |-> FALSE,
              entities |-> [before.entities EXCEPT
                              ![step.cat] = Append(@, step.data)]]

\* Mutant: without the 'entities' key an empty dict is returned
_parse_extraction_response_EmptyDict(resp, original_text) ==
  IF resp.has_entities
  THEN ParseLoop(resp.entities, Len(resp.entities), original_text)
  ELSE [raised |-> FALSE, entities |-> <<>>]

\* A response is [has_entities |-> 'entities' in response,
\*                 entities |-> response['entities']]
_parse_extraction_response(resp, original_text) ==
  IF resp.has_entities
  THEN ParseLoop(resp.entities, Len(resp.entities), original_text)
  ELSE [raised |-> FALSE, entities |-> EmptyEntities]

-----------------------------------------------------------------------------
(* _demo_extract_entities *)

problem_keywords ==
  << Chars("hypertension"), Chars("diabetes"), Chars("stemi"),
     Chars("myocardial infarction"), Chars("chest pain"),
     Chars("hyperlipidemia"), Chars("pain"), Chars("infection"),
     Chars("fever"), Chars("pneumonia"), Chars("copd"),
     Chars("heart failure"), Chars("arrhythmia"), Chars("stroke"),
     Chars("asthma") >>

procedure_keywords ==
  << Chars("catheterization"), Chars("surgery"), Chars("biopsy"),
     Chars("intubation"), Chars("procedure"), Chars("operation"),
     Chars("endoscopy"), Chars("colonoscopy"), Chars("angiography"),
     Chars("stent") >>

medication_keywords ==
  << Chars("aspirin"), Chars("metformin"), Chars("lisinopril"),
     Chars("atorvastatin"), Chars("clopidogrel"), Chars("heparin"),
     Chars("insulin"), Chars("warfarin"), Chars("levothyroxine"),
     Chars("amlodipine"), Chars("omeprazole"), Chars("prednisone"),
     Chars("albuterol") >>

lab_keywords ==
  << Chars("troponin"), Chars("ekg"), Chars("blood pressure"),
     Chars("heart rate"), Chars("glucose"), Chars("hemoglobin"),
     Chars("creatinine"), Chars("bun"), Chars("wbc"), Chars("platelets"),
     Chars("inr"), Chars("cholesterol"), Chars("ldl"), Chars("hdl"),
     Chars("triglycerides") >>

DemoContextWindow == 50
ProblemConfidence == 85
ProcedureConfidence == 80
MedicationConfidence == 90
LabConfidence == 75

\* The dict appended for a keyword found in the text
DemoRecord(keyword, txt, text_lower, code_system, confidence) ==
  [text |-> JStr(title(keyword)),
   code |-> JStr(Chars("DEMO-") \o upper(replace(keyword, " ", "-"))),
   code_system |-> JStr(code_system),
   description |-> JStr(title(keyword)),
   confidence |-> JFloat(confidence),
   context |-> JStr(_extract_context(txt, find(text_lower, keyword),
                                    Len(keyword), DemoContextWindow))]

\* Mutant: a record is inserted at the front of the category list
RECURSIVE DemoScan_Prepend(_, _, _, _, _, _)
DemoScan_Prepend(keywords, k, txt, text_lower, code_system, confidence) ==
  IF k = 0 THEN <<>>
  ELSE
    LET before == DemoScan_Prepend(keywords, k - 1, txt, text_lower,
                                   code_system, confidence)
    IN  IF Contains(text_lower, keywords[k])
        THEN <<DemoRecord(keywords[k], txt, text_lower, code_system,
                          confidence)>> \o before
        ELSE before

\* for keyword in keywords: if keyword in text_lower: append(...), over the
\* first k keywords
RECURSIVE DemoScan(_, _, _, _, _, _)
DemoScan(keywords, k, txt, text_lower, code_system, confidence) ==
  IF k = 0 THEN <<>>
  ELSE
    LET before == DemoScan(keywords, k - 1, txt, text_lower, code_system,
                           confidence)
    IN  IF Contains(text_lower, keywords[k])
        THEN Append(before, DemoRecord(keywords[k], txt, text_lower,
                                       code_system, confidence))
        ELSE before

_demo_extract_entities(txt) ==
  LET text_lower == lower(txt)
  IN  [problems |->
         DemoScan(problem_keywords, Len(problem_keywords), txt, text_lower,
                  Chars("ICD-10-CM"), ProblemConfidence),
       procedures |->
         DemoScan(procedure_keywords, Len(procedure_keywords), txt,
                  text_lower, Chars("CPT"), ProcedureConfidence),
       medications |->
         DemoScan(medication_keywords, Len(medication_keywords), txt,
                  text_lower, Chars("RxNorm"), MedicationConfidence),
       labs |->
         DemoScan(lab_keywords, Len(lab_keywords), txt, text_lower,
                  Chars("LOINC"), LabConfidence)]

-----------------------------------------------------------------------------
(* _get_access_token and extract_entities *)

NoToken == "None"
NoExpiry == [set |-> FALSE, v |-> 0]
Expiry(t) == [set |-> TRUE, v |-> t]

\* Python truthiness of a token (None and '' are falsy) and of an expiry
\* (None and 0 are falsy)
TruthyToken(tok) == tok \notin {NoToken, ""}
TruthyExpiry(e) == e.set /\ e.v # 0

DefaultExpiresIn == 3600   \* result.get('expires_in', 3600)
RefreshMargin == 60        \* "- 60": refresh 60 s before expiry

\* What the auth endpoint can do: requests.post raises; a status other than
\* 200; 200 with a body that is not JSON; 200 with a JSON body holding an
\* access_token (or none) and an expires_in (or none, or not a number).
AuthReply(kind, tok, exp) == [kind |-> kind, access_token |-> tok, expires_in |-> exp]

\* _get_access_token: the value returned and the token state left behind
_get_access_token(tok, expiry, time, reply) ==
  IF TruthyToken(tok) /\ TruthyExpiry(expiry) /\ time < expiry.v
    THEN [token |-> tok, access_token |-> tok, token_expiry |-> expiry,
          auth |-> "cached"]
  ELSE IF reply.kind = "exception"
    THEN [token |-> NoToken, access_token |-> tok, token_expiry |-> expiry,
          auth |-> "exception"]
  ELSE IF reply.kind = "status"
    THEN [token |-> NoToken, access_token |-> tok, token_expiry |-> expiry,
          auth |-> "status"]
  ELSE IF reply.kind = "bad_json"
    THEN [token |-> NoToken, access_token |-> tok, token_expiry |-> expiry,
          auth |-> "bad_json"]
  \* self.access_token is assigned before expires_in is used: a non-numeric
  \* expires_in raises after the assignment, and None is returned
  ELSE IF reply.expires_in.t \notin {"absent", "int"}
    THEN [token |-> NoToken, access_token |-> reply.access_token,
          token_expiry |-> expiry, auth |-> "bad_expires_in"]
  ELSE [token |-> reply.access_token,
        access_token |-> reply.access_token,
        token_expiry |->
          Expiry(time + get(reply.expires_in, JInt(DefaultExpiresIn)).n
                 - RefreshMargin),
        auth |-> "ok"]

\* Mutant: a status other than 200 is raised to the caller
ExtractWithCredentials_RaiseForStatus(txt, tok, expiry, time, auth_reply, api) ==
  LET got == _get_access_token(tok, expiry, time, auth_reply)
      parsed == _parse_extraction_response(api.result, txt)
      state == [access_token |-> got.access_token,
                token_expiry |-> got.token_expiry]
      demo == [raised |-> FALSE, entities |-> _demo_extract_entities(txt)]
  IN  IF ~TruthyToken(got.token)
        THEN [ret |-> demo, path |-> "demo", auth |-> got.auth, token |-> got.token,
              api |-> "not_called", state |-> state]
      ELSE IF api.kind = "status"
        THEN [ret |-> [raised |-> TRUE, entities |-> EmptyEntities],
              path |-> "raised", auth |-> got.auth, token |-> got.token,
              api |-> "status", state |-> state]
      ELSE IF api.kind \in {"exception", "bad_json"} \/ parsed.raised
        THEN [ret |-> demo, path |-> "demo", auth |-> got.auth, token |-> got.token,
              api |-> IF api.kind = "ok" THEN "ok_parse_raised" ELSE api.kind,
              state |-> state]
      ELSE [ret |-> parsed, path |-> "vendor", auth |-> got.auth, token |-> got.token,
            api |-> "ok", state |-> state]

\* extract_entities past the empty-text and credential checks: the try block
\* with its except clause.  api is what the extraction endpoint does.
ExtractWithCredentials(txt, tok, expiry, time, auth_reply, api) ==
  LET got == _get_access_token(tok, expiry, time, auth_reply)
      parsed == _parse_extraction_response(api.result, txt)
      state == [access_token |-> got.access_token,
                token_expiry |-> got.token_expiry]
      demo == [raised |-> FALSE, entities |-> _demo_extract_entities(txt)]
  IN  IF ~TruthyToken(got.token)
        THEN [ret |-> demo, path |-> "demo", auth |-> got.auth, token |-> got.token,
              api |-> "not_called", state |-> state]
      ELSE IF api.kind = "exception"
        THEN [ret |-> demo, path |-> "demo", auth |-> got.auth, token |-> got.token,
              api |-> "exception", state |-> state]
      ELSE IF api.kind = "status"
        THEN [ret |-> demo, path |-> "demo", auth |-> got.auth, token |-> got.token,
              api |-> "status", state |-> state]
      ELSE IF api.kind = "bad_json"
        THEN [ret |-> demo, path |-> "demo", auth |-> got.auth, token |-> got.token,
              api |-> "bad_json", state |-> state]
      \* an exception of _parse_extraction_response is raised inside the try
      ELSE IF parsed.raised
        THEN [ret |-> demo, path |-> "demo", auth |-> got.auth, token |-> got.token,
              api |-> "ok_parse_raised", state |-> state]
      ELSE [ret |-> parsed, path |-> "vendor", auth |-> got.auth, token |-> got.token,
            api |-> "ok", state |-> state]

-----------------------------------------------------------------------------
(* Inputs *)

\* All sequences of at most n elements of S
SeqsUpTo(S, n) == UNION {[1..k -> S] : k \in 0..n}

RECURSIVE Repeat(_, _)
Repeat(s, k) == IF k = 0 THEN <<>> ELSE s \o Repeat(s, k - 1)

\* Windower inputs
CtxTexts == SeqsUpTo({"a", "b", " "}, MaxTextLen)

\* Source texts of classifier calls: empty, shorter than the window of 200
\* and longer than two windows
ShortText == Chars("Pt with MI, on ASA.")
LongText == Repeat(Chars("acute mi  "), 45)
ParseTexts == {<<>>, ShortText, LongText}

\* An entity of the vendor response; the id is its position in the response
Entity(assertion, etext, semantic, begin, end, codemaps) ==
  [assertion |-> assertion, text |-> etext, semantic |-> semantic,
   begin |-> begin, end |-> end, codemaps |-> codemaps, id |-> Absent]

WithIds(ents) == [i \in DOMAIN ents |-> [ents[i] EXCEPT !.id = JInt(i)]]

Responses(pool) ==
  {[has_entities |-> FALSE, entities |-> <<>>]}
  \cup {[has_entities |-> TRUE, entities |-> WithIds(e)] :
          e \in SeqsUpTo(pool, MaxEntities)}

GoodImo == Codemaps(Imo(JStr(Chars("1234")), JStr(Chars("Acute MI")), JFloat(50)))

\* Entities for the two filters and the category mapping
FilterPool ==
  {Entity(a, t, JStr(Chars("problem")), JInt(2), JInt(4), AbsentCodemaps) :
     a \in {JStr(Chars("present")), JStr(Chars("Present")),
            JStr(Chars("absent")), Absent},
     t \in {JStr(Chars("MI")), JStr(Chars("Care Plan"))}}
  \cup
  {Entity(JStr(Chars("present")), JStr(Chars("MI")), s, JInt(8), JInt(10),
          GoodImo) :
     s \in {JStr(Chars("other")),
            JStr(Chars("Diagnosis")), JStr(Chars("condition")),
            JStr(Chars("procedure")), JStr(Chars("Medication")),
            JStr(Chars("drug")), JStr(Chars("lab")),
            JStr(Chars("observation")), JStr(Chars("test")),
            JStr(Chars("lab procedure")), JStr(Chars("drug test")),
            JStr(Chars("medication problem")), Absent}}

\* Entities whose text holds one of the ignore patterns, in mixed case and
\* inside a longer phrase, next to two entities whose text holds none
NoisePool ==
  {Entity(a, JStr(Chars(" New ") \o title(ignore_patterns[k]) \o Chars("s ")),
          s, JInt(2), JInt(4), AbsentCodemaps) :
     k \in 1..Len(ignore_patterns),
     a \in {JStr(Chars("present"))},
     s \in {JStr(Chars("problem")), JStr(Chars("other"))}}
  \cup
  {Entity(a, JStr(Chars("MI")), JStr(Chars("problem")), JInt(2), JInt(4),
          AbsentCodemaps) :
     a \in {JStr(Chars("present")), JStr(Chars("possible"))}}
  \cup
  {Entity(JStr(Chars("absent")), JStr(Chars("Follow-Up")),
          JStr(Chars("procedure")), JInt(2), JInt(4), AbsentCodemaps)}

\* Entities with missing, wrong-typed or out-of-range field values
ConfidenceValues ==
  {Absent, JNull, JInt(1), JFloat(50), JFloat(100), JFloat(150), JFloat(-20),
   JInf, JNaN, JStr(Chars("0.75")), JStr(Chars(" 1 ")), JStr(Chars("-.5")),
   JStr(Chars("Infinity")), JStr(Chars("high"))}

MalformedPool ==
  {Entity(JStr(Chars("present")), JStr(Chars("MI")), JStr(Chars("problem")),
          JInt(2), JInt(4),
          Codemaps(Imo(JStr(Chars("1234")), Absent, c))) :
     c \in ConfidenceValues}
  \cup
  {Entity(JStr(Chars("present")), JStr(Chars("MI")), JStr(Chars("drug")),
          b[1], b[2], AbsentCodemaps) :
     b \in {<<Absent, Absent>>, <<JInt(4), JInt(2)>>, <<JInt(-3), JInt(1)>>,
            <<JInt(300), JInt(-250)>>, <<JStr(Chars("2")), JStr(Chars("4"))>>,
            <<JInt(2), JNull>>}}
  \cup
  {Entity(JNull, JStr(Chars("MI")), JStr(Chars("problem")), JInt(2), JInt(4),
          AbsentCodemaps),
   Entity(JStr(Chars("present")), Absent, JStr(Chars("lab")), JInt(2),
          JInt(4), AbsentCodemaps),
   Entity(JStr(Chars("present")), JInt(7), JStr(Chars("lab")), JInt(2),
          JInt(4), AbsentCodemaps),
   Entity(JStr(Chars("present")), JStr(Chars("MI")), JNull, JInt(2), JInt(4),
          AbsentCodemaps),
   Entity(JStr(Chars("present")), JStr(Chars("MI")), JStr(Chars("lab")),
          JInt(2), JInt(4), NullCodemaps),
   Entity(JStr(Chars("present")), JStr(Chars("MI")), JStr(Chars("lab")),
          JInt(2), JInt(4), Codemaps(NullImo)),
   Entity(JStr(Chars("present")), JStr(Chars("MI")), JStr(Chars("lab")),
          JInt(2), JInt(4), EmptyDict),
   Entity(JStr(Chars("absent")), JNull, JNull, JNull, JNull, NullCodemaps)}

\* Fallback inputs: up to MaxWords words joined by single spaces, after an
\* optional lead-in; and the example sentence of the documentation
Words ==
  {Chars("Hypertension"), Chars("aspirin"), Chars("PAIN"),
   Chars("chest"), Chars("stents"), Chars("Troponin"), Chars("bun"),
   Chars("well")}

RECURSIVE Join(_)
Join(ws) ==
  IF ws = <<>> THEN <<>>
  ELSE IF Len(ws) = 1 THEN ws[1]
  ELSE ws[1] \o <<" ">> \o Join(Tail(ws))

ExampleText == Chars("Patient has hypertension and takes aspirin daily.")

DemoTexts ==
  {lead \o Join(ws) : lead \in {<<>>, <<IDot, " ">>, Repeat(Chars("pt denies. "), 6)},
                      ws \in SeqsUpTo(Words, MaxWords)}
  \cup {ExampleText, ExampleText \o Repeat(Chars(" No fever."), 6)}

\* Entry-point inputs
EntryTexts == {<<>>, Chars("MI"), Chars("Fever, on Aspirin")}

EntryResponses ==
  {[has_entities |-> FALSE, entities |-> <<>>],
   [has_entities |-> TRUE, entities |-> <<>>],
   [has_entities |-> TRUE,
    entities |-> WithIds(<<Entity(JStr(Chars("present")), JStr(Chars("MI")),
                                  JStr(Chars("problem")), JInt(0), JInt(2),
                                  GoodImo)>>)],
   [has_entities |-> TRUE,
    entities |-> WithIds(<<Entity(JNull, JStr(Chars("MI")),
                                  JStr(Chars("problem")), JInt(0), JInt(2),
                                  GoodImo)>>)]}

\* Entities of two categories the entry responses leave empty
ResultPool ==
  {Entity(JStr(Chars("present")), JStr(Chars("MI")), JStr(s), JInt(0),
          JInt(2), GoodImo) :
     s \in {Chars("procedure"), Chars("lab")}}

AuthReplies ==
  {AuthReply("exception", NoToken, Absent),
   AuthReply("status", NoToken, Absent),
   AuthReply("bad_json", NoToken, Absent)}
  \cup
  {AuthReply("ok", tok, exp) :
     tok \in {NoToken, "token1", "token2"},
     exp \in {Absent, JInt(120), JStr(Chars("soon"))}}

NoResponse == [has_entities |-> FALSE, entities |-> <<>>]

ApiReplies ==
  {[kind |-> k, result |-> NoResponse] : k \in {"exception", "status", "bad_json"}}
  \cup {[kind |-> "ok", result |-> r] : r \in EntryResponses}

-----------------------------------------------------------------------------
(* States and operations *)

NoRet == [raised |-> FALSE, entities |-> EmptyEntities]
NoHttp == [path |-> "none", auth |-> "not_called", api |-> "not_called",
           token |-> NoToken]

\* The processor as __init__ leaves it when config holds no credentials
NoProcessor ==
  /\ client_id = FALSE
  /\ client_secret = FALSE
  /\ access_token = NoToken
  /\ token_expiry = NoExpiry
  /\ now = 60
  /\ http = NoHttp

NoCall ==
  /\ op = "none"
  /\ ret = NoRet
  /\ ctx_ret = <<>>

NoCtxArgs ==
  /\ offset = 0
  /\ length = 0
  /\ context_window = 0

InitCtx ==
  /\ text \in CtxTexts
  /\ offset \in -MaxOffset..MaxOffset
  /\ length \in -MaxLength..MaxLength
  /\ context_window \in -1..MaxWindow
  /\ response = NoResponse
  /\ NoProcessor
  /\ NoCall

InitPool(pool, texts) ==
  /\ text \in texts
  /\ response \in Responses(pool)
  /\ NoCtxArgs
  /\ NoProcessor
  /\ NoCall

InitParse == InitPool(FilterPool, {ShortText})
InitNoise == InitPool(NoisePool, {ShortText})
InitMalformed == InitPool(MalformedPool, ParseTexts)

InitDemo ==
  /\ text \in DemoTexts
  /\ response = NoResponse
  /\ NoCtxArgs
  /\ NoProcessor
  /\ NoCall

\* __init__: config holds the credentials or not; no token yet
Init ==
  /\ text = <<>>
  /\ response = NoResponse
  /\ NoCtxArgs
  /\ client_id \in BOOLEAN
  /\ client_secret \in BOOLEAN
  /\ access_token = NoToken
  /\ token_expiry = NoExpiry
  /\ now = 60
  /\ http = NoHttp
  /\ NoCall

\* A processor with or without credentials, and the arguments of a direct
\* call of _parse_extraction_response or _demo_extract_entities
InitResult ==
  /\ text \in EntryTexts
  /\ response \in EntryResponses \cup Responses(ResultPool)
  /\ NoCtxArgs
  /\ client_id \in BOOLEAN
  /\ client_secret \in BOOLEAN
  /\ access_token = NoToken
  /\ token_expiry = NoExpiry
  /\ now = 60
  /\ http = NoHttp
  /\ NoCall

ExtractContext ==
  /\ op' = "_extract_context"
  /\ ctx_ret' = _extract_context(text, offset, length, context_window)
  /\ UNCHANGED <<text, response, offset, length, context_window, client_id,
                 client_secret, access_token, token_expiry, now, http, ret>>

ParseExtractionResponse ==
  /\ op' = "_parse_extraction_response"
  /\ ret' = _parse_extraction_response(response, text)
  /\ UNCHANGED <<text, response, offset, length, context_window, client_id,
                 client_secret, access_token, token_expiry, now, http,
                 ctx_ret>>

DemoExtractEntities ==
  /\ op' = "_demo_extract_entities"
  /\ ret' = [raised |-> FALSE, entities |-> _demo_extract_entities(text)]
  /\ UNCHANGED <<text, response, offset, length, context_window, client_id,
                 client_secret, access_token, token_expiry, now, http,
                 ctx_ret>>

\* extract_entities(text): if not text
ExtractEntitiesEmpty ==
  /\ text' = <<>>
  /\ op' = "extract_entities"
  /\ ret' = NoRet
  /\ http' = [NoHttp EXCEPT !.path = "empty"]
  /\ response' = NoResponse
  /\ UNCHANGED <<offset, length, context_window, client_id, client_secret,
                 access_token, token_expiry, now, ctx_ret>>

\* extract_entities(text): if not self.client_id or not self.client_secret
ExtractEntitiesNoCredentials ==
  /\ ~client_id \/ ~client_secret
  /\ \E txt \in EntryTexts \ {<<>>} :
       /\ text' = txt
       /\ ret' = [raised |-> FALSE, entities |-> _demo_extract_entities(txt)]
  /\ op' = "extract_entities"
  /\ http' = [NoHttp EXCEPT !.path = "demo"]
  /\ response' = NoResponse
  /\ UNCHANGED <<offset, length, context_window, client_id, client_secret,
                 access_token, token_expiry, now, ctx_ret>>

\* The replies of the auth endpoint that matter: none is asked for while an
\* unexpired token is held
AuthRepliesAt(tok, expiry, time) ==
  IF TruthyToken(tok) /\ TruthyExpiry(expiry) /\ time < expiry.v
  THEN {AuthReply("exception", NoToken, Absent)}
  ELSE AuthReplies

\* The replies of the extraction endpoint that matter: none is asked for
\* without a token
ApiRepliesAt(tok, expiry, time, auth_reply) ==
  IF TruthyToken(_get_access_token(tok, expiry, time, auth_reply).token)
  THEN ApiReplies
  ELSE {[kind |-> "exception", result |-> NoResponse]}

\* extract_entities(text): the try block
ExtractEntitiesCall ==
  /\ client_id /\ client_secret
  /\ \E txt \in EntryTexts \ {<<>>},
        auth_reply \in AuthRepliesAt(access_token, token_expiry, now) :
       \E api \in ApiRepliesAt(access_token, token_expiry, now, auth_reply) :
         \E r \in {ExtractWithCredentials(txt, access_token, token_expiry,
                                          now, auth_reply, api)} :
           /\ text' = txt
           /\ ret' = r.ret
           /\ http' = [path |-> r.path, auth |-> r.auth, api |-> r.api,
                       token |-> r.token]
           /\ response' = IF r.api \in {"ok", "ok_parse_raised"}
                          THEN api.result ELSE NoResponse
           /\ access_token' = r.state.access_token
           /\ token_expiry' = r.state.token_expiry
  /\ op' = "extract_entities"
  /\ UNCHANGED <<offset, length, context_window, client_id, client_secret,
                 now, ctx_ret>>

ExtractEntities ==
  \/ ExtractEntitiesEmpty
  \/ ExtractEntitiesNoCredentials
  \/ ExtractEntitiesCall

\* time.time() advances between calls, a minute at a time
Tick ==
  /\ now < 60 * MaxTime
  /\ now' = now + 60
  /\ UNCHANGED <<text, response, offset, length, context_window, client_id,
                 client_secret, access_token, token_expiry, http, op, ret,
                 ctx_ret>>

NextCtx == ExtractContext
NextParse == ParseExtractionResponse
NextDemo == DemoExtractEntities
Next == ExtractEntities \/ Tick
NextResult ==
  \/ ParseExtractionResponse
  \/ DemoExtractEntities
  \/ ExtractEntities
  \/ Tick

SpecCtx == InitCtx /\ [][NextCtx]_vars
SpecParse == InitParse /\ [][NextParse]_vars
SpecNoise == InitNoise /\ [][NextParse]_vars
SpecMalformed == InitMalformed /\ [][NextParse]_vars
SpecDemo == InitDemo /\ [][NextDemo]_vars
Spec == Init /\ [][Next]_vars
SpecResult == InitResult /\ [][NextResult]_vars

-----------------------------------------------------------------------------
(* Properties of _parse_extraction_response *)

Parsed == op = "_parse_extraction_response"

\* The positions in category c of the records built from the i-th entity of
\* the response (a record carries the id of its entity)
RecordsOf(i, c) ==
  {k \in 1..Len(ret.entities[c]) : ret.entities[c][k].entity_id = JInt(i)}

Emitted(i) == \E c \in Categories : RecordsOf(i, c) # {}

\* The entity's assertion, lower-cased, is the string "present"
AssertedPresent(e) ==
  LET a == get(e.assertion, JStr(<<>>))
  IN  a.t = "str" /\ lower(a.s) = Chars("present")

\* The entity's text, lower-cased and stripped, holds an ignore pattern
Denylisted(e) ==
  LET x == get(e.text, JStr(<<>>))
  IN  /\ x.t = "str"
      /\ \E k \in 1..Len(ignore_patterns) :
           Contains(strip(lower(x.s)), ignore_patterns[k])

Accepted(e) == AssertedPresent(e) /\ ~Denylisted(e)

\* C1: an entity whose assertion, lower-cased, is not "present" (a missing
\* assertion counts as the empty string) has no record in any category.
C1_AssertionFilter ==
  Parsed =>
    \A i \in 1..Len(response.entities) :
      ~AssertedPresent(response.entities[i]) => ~Emitted(i)

\* C1 witness: a call that emitted a record and turned away an entity
\* asserted "absent" that is labelled "problem" and has a clean text.
C1_Witness ==
  /\ Parsed
  /\ \E i, j \in 1..Len(response.entities) :
       /\ Emitted(i)
       /\ response.entities[j].assertion = JStr(Chars("absent"))
       /\ response.entities[j].semantic = JStr(Chars("problem"))
       /\ ~Denylisted(response.entities[j])
       /\ ~Emitted(j)

\* C2: an entity whose text, lower-cased and stripped, contains one of the
\* 15 ignore patterns has no record in any category, whatever its assertion
\* and semantic label.
C2_NoiseFilter ==
  Parsed =>
    \A i \in 1..Len(response.entities) :
      Denylisted(response.entities[i]) => ~Emitted(i)

\* C2 witness: a call that emitted a record and dropped an entity asserted
\* present, labelled "problem", whose text holds "plan" inside a longer
\* phrase in another case.
C2_Witness ==
  /\ Parsed
  /\ \E i, j \in 1..Len(response.entities) :
       /\ Emitted(i)
       /\ response.entities[j].text = JStr(Chars(" New Plans "))
       /\ response.entities[j].semantic = JStr(Chars("problem"))
       /\ AssertedPresent(response.entities[j])
       /\ ~Emitted(j)

\* The keyword groups in priority order
KeywordGroups ==
  << [cat |-> "problems",
      keys |-> {Chars("problem"), Chars("condition"), Chars("diagnosis")}],
     [cat |-> "procedures", keys |-> {Chars("procedure")}],
     [cat |-> "medications", keys |-> {Chars("medication"), Chars("drug")}],
     [cat |-> "labs",
      keys |-> {Chars("lab"), Chars("observation"), Chars("test")}] >>

\* The groups with a member that is a substring of the lower-cased label
MatchingGroups(e) ==
  LET label == lower(get(e.semantic, JStr(<<>>)).s)
  IN  {g \in 1..Len(KeywordGroups) :
         \E key \in KeywordGroups[g].keys : Contains(label, key)}

FirstGroup(e) ==
  CHOOSE g \in MatchingGroups(e) : \A h \in MatchingGroups(e) : g <= h

\* The number of records built from the i-th entity, over all categories
RecordCount(i) ==
  Cardinality({<<c, k>> \in
                 UNION {{c} \X RecordsOf(i, c) : c \in Categories} : TRUE})

\* C3 as stated: every accepted entity has exactly one record, in the
\* category of the first keyword group that matches its label.
C3_ExactlyOneCategory ==
  (Parsed /\ ~ret.raised) =>
    \A i \in 1..Len(response.entities) :
      Accepted(response.entities[i]) =>
        /\ RecordCount(i) = 1
        /\ MatchingGroups(response.entities[i]) # {}
        /\ RecordsOf(i, KeywordGroups[FirstGroup(response.entities[i])].cat)
           # {}

\* C3 amended: an accepted entity whose label matches a keyword group has
\* exactly one record, in the category of the first matching group in the
\* order problems, procedures, medications, labs; an accepted entity whose
\* label matches no group has no record.
C3_FirstMatchOrNone ==
  (Parsed /\ ~ret.raised) =>
    \A i \in 1..Len(response.entities) :
      Accepted(response.entities[i]) =>
        IF MatchingGroups(response.entities[i]) = {}
        THEN RecordCount(i) = 0
        ELSE /\ RecordCount(i) = 1
             /\ RecordsOf(i,
                  KeywordGroups[FirstGroup(response.entities[i])].cat) # {}

\* C3 witness: an accepted entity labelled "lab procedure" (two groups) is in
\* procedures, and one labelled "other" (no group) is nowhere.
C3_Witness ==
  /\ Parsed
  /\ \E i, j \in 1..Len(response.entities) :
       /\ Accepted(response.entities[i])
       /\ response.entities[i].semantic = JStr(Chars("lab procedure"))
       /\ RecordsOf(i, "procedures") # {}
       /\ Accepted(response.entities[j])
       /\ response.entities[j].semantic = JStr(Chars("other"))
       /\ ~Emitted(j)

\* C10: in every category the records are in the order of the entities they
\* were built from, and no entity has more than one record.
C10_InputOrder ==
  Parsed =>
    /\ \A c \in Categories :
         \A k, m \in 1..Len(ret.entities[c]) :
           k < m => ret.entities[c][k].entity_id.n
                      < ret.entities[c][m].entity_id.n
    /\ \A i \in 1..Len(response.entities) : RecordCount(i) <= 1

\* C10 witness: two entities with different labels have their records in
\* the same category, the record of the first entity before the other.
C10_Witness ==
  /\ Parsed
  /\ Len(ret.entities.problems) = 2
  /\ ret.entities.problems[1].entity_id = JInt(1)
  /\ ret.entities.problems[2].entity_id = JInt(2)
  /\ ret.entities.problems[1].semantic # ret.entities.problems[2].semantic

-----------------------------------------------------------------------------
(* Properties of _extract_context *)

\* The window as C4 describes it: the characters at the positions p with
\* start <= p < end, none when end <= start
ClampedWindow(t, off, len, window) ==
  LET start == Max(0, off - window)
      end == Min(Len(t), off + len + window)
      inside == IF end <= start THEN <<>> ELSE SubSeq(t, start + 1, end)
  IN  IF t = <<>> THEN <<>>
      ELSE (IF start > 0 THEN Ellipsis ELSE <<>>)
           \o strip(inside)
           \o (IF end < Len(t) THEN Ellipsis ELSE <<>>)

\* C4: _extract_context returns "" for an empty text and otherwise the
\* trimmed characters between the clamped bounds start and end, with "..."
\* before them if start > 0 and after them if end < len(text), for every
\* integer offset, length and radius.
C4_ClampedContext ==
  op = "_extract_context" =>
    ctx_ret = ClampedWindow(text, offset, length, context_window)

-----------------------------------------------------------------------------
(* Properties of the records of both paths *)

Returned == op \in {"_parse_extraction_response", "_demo_extract_entities"}

AllRecords ==
  UNION {{ret.entities[c][k] : k \in 1..Len(ret.entities[c])} :
           c \in Categories}

\* The source entity of a classifier record
SourceOf(r) == response.entities[r.entity_id.n]

\* C5: every emitted record has a finite confidence in [0.0, 1.0], and 0.0
\* when the entity has no 'imo' mapping or the mapping has no 'confidence'.
C5_ConfidenceInRange ==
  Returned =>
    \A r \in AllRecords :
      /\ r.confidence.t = "float"
      /\ 0 <= r.confidence.n /\ r.confidence.n <= 100
      /\ (/\ Parsed
          /\ \/ SourceOf(r).codemaps.imo.t = "absent"
             \/ SourceOf(r).codemaps.imo.confidence.t = "absent")
         => r.confidence = JFloat(0)

\* The fields of a classifier record
ClassifierFields ==
  {"text", "code", "code_system", "description", "offset", "length",
   "confidence", "context", "entity_id", "semantic", "assertion", "codemaps"}

\* C6: every field of a classifier record is present on every fallback
\* record.
C6_SameShape ==
  op = "_demo_extract_entities" =>
    \A r \in AllRecords : ClassifierFields \subseteq DOMAIN r

\* C8: _parse_extraction_response completes normally on entities with
\* missing, wrong-typed or unparseable field values.
C8_NeverRaises == Parsed => ~ret.raised

-----------------------------------------------------------------------------
(* Properties of _demo_extract_entities *)

Vocabularies ==
  [problems |-> [terms |-> problem_keywords, confidence |-> 85],
   procedures |-> [terms |-> procedure_keywords, confidence |-> 80],
   medications |-> [terms |-> medication_keywords, confidence |-> 90],
   labs |-> [terms |-> lab_keywords, confidence |-> 75]]

\* The indexes of the terms of a vocabulary that occur in the lower-cased text
Occurring(terms) ==
  {k \in 1..Len(terms) : Contains(lower(text), terms[k])}

\* The j-th smallest element of a set of numbers
Nth(S, j) == CHOOSE k \in S : Cardinality({m \in S : m <= k}) = j

\* The index of the first occurrence of term in the lower-cased text
FirstOccurrence(term) ==
  CHOOSE i \in 0..Len(lower(text)) :
    /\ SubSeq(lower(text), i + 1, i + Len(term)) = term
    /\ \A j \in 0..(i - 1) : SubSeq(lower(text), j + 1, j + Len(term)) # term

\* C9: each category holds one record per vocabulary term that occurs in the
\* lower-cased text, in vocabulary order, with the title-cased term as text,
\* 'DEMO-' and the upper-cased, hyphenated term as code, the category's fixed
\* confidence, and the context of radius 50 around the first occurrence; the
\* documented example yields Hypertension (0.85) and Aspirin (0.90) only.
C9_FallbackRecords ==
  op = "_demo_extract_entities" =>
    /\ \A c \in Categories :
         LET terms == Vocabularies[c].terms
             out == ret.entities[c]
         IN  /\ Len(out) = Cardinality(Occurring(terms))
             /\ \A j \in 1..Len(out) :
                  LET term == terms[Nth(Occurring(terms), j)]
                  IN  /\ out[j].text = JStr(title(term))
                      /\ out[j].code
                         = JStr(Chars("DEMO-")
                                \o upper(replace(term, " ", "-")))
                      /\ out[j].confidence = JFloat(Vocabularies[c].confidence)
                      /\ out[j].context
                         = JStr(_extract_context(text, FirstOccurrence(term),
                                                 Len(term), 50))
    /\ text = ExampleText =>
         /\ Len(ret.entities.problems) = 1
         /\ ret.entities.problems[1].text = JStr(Chars("Hypertension"))
         /\ ret.entities.problems[1].confidence = JFloat(85)
         /\ Len(ret.entities.medications) = 1
         /\ ret.entities.medications[1].text = JStr(Chars("Aspirin"))
         /\ ret.entities.medications[1].confidence = JFloat(90)
         /\ ret.entities.procedures = <<>>
         /\ ret.entities.labs = <<>>

\* C9 witness: "PAIN Hypertension" yields Hypertension before Pain, the
\* vocabulary order, and nothing in the other categories.
C9_Witness ==
  /\ op = "_demo_extract_entities"
  /\ text = Chars("PAIN Hypertension")
  /\ Len(ret.entities.problems) = 2
  /\ ret.entities.problems[1].code = JStr(Chars("DEMO-HYPERTENSION"))
  /\ ret.entities.problems[2].text = JStr(Chars("Pain"))
  /\ ret.entities.labs = <<>>

-----------------------------------------------------------------------------
(* Properties of extract_entities *)

Demo == [raised |-> FALSE, entities |-> _demo_extract_entities(text)]

\* C7: on a non-empty text extract_entities raises nothing; it returns the
\* fallback result when a credential is missing, when no token was obtained,
\* when the extraction endpoint answered with a status other than 200 and
\* when an exception was raised during the call; it returns the classifier's
\* result only when a token was obtained and the endpoint answered 200.
C7_FallbackRouting ==
  (op = "extract_entities" /\ text # <<>>) =>
    /\ ~ret.raised
    /\ (~client_id \/ ~client_secret) => ret = Demo
    /\ ~TruthyToken(http.token) => ret = Demo
    /\ http.api = "status" => ret = Demo
    /\ (\/ http.auth \in {"exception", "bad_json", "bad_expires_in"}
        \/ http.api \in {"exception", "bad_json", "ok_parse_raised"})
       => ret = Demo
    /\ http.path \in {"demo", "vendor"}
    /\ http.path = "demo" => ret = Demo
    /\ http.path = "vendor" =>
         /\ client_id /\ client_secret
         /\ TruthyToken(http.token)
         /\ http.api = "ok"
         /\ ret = _parse_extraction_response(response, text)

\* C7 witness: with credentials and a token, the endpoint answered with a
\* status other than 200 and the non-empty fallback result was returned.
C7_Witness ==
  /\ op = "extract_entities"
  /\ client_id /\ client_secret
  /\ TruthyToken(http.token)
  /\ http.api = "status"
  /\ ret = Demo
  /\ ret.entities.problems # <<>>

-----------------------------------------------------------------------------
(* Properties of the returned mapping *)

IsSequence(v) == DOMAIN v = 1..Len(v)

AllEmpty == \A c \in Categories : ret.entities[c] = <<>>

NoSpans == ~response.has_entities \/ response.entities = <<>>

\* C11: whatever _parse_extraction_response, _demo_extract_entities or
\* extract_entities returns is a mapping with exactly the keys problems,
\* procedures, medications and labs, each bound to a sequence of records;
\* the fallback and extract_entities return on every input, the classifier
\* on every response without 'entities' or with an empty 'entities'; all
\* four sequences are empty when the response has no 'entities' key, when
\* 'entities' is empty and when the text given to extract_entities is empty.
C11_FourKeys ==
  /\ op \in {"_demo_extract_entities", "extract_entities"} => ~ret.raised
  /\ (Parsed /\ NoSpans) => ~ret.raised
  /\ (op # "none" /\ op # "_extract_context" /\ ~ret.raised) =>
       /\ DOMAIN ret.entities = Categories
       /\ \A c \in Categories :
            /\ IsSequence(ret.entities[c])
            /\ \A k \in 1..Len(ret.entities[c]) :
                 "text" \in DOMAIN ret.entities[c][k]
       /\ (Parsed /\ NoSpans) => AllEmpty
       /\ (op = "extract_entities" /\ http.path = "vendor" /\ NoSpans)
            => AllEmpty
       /\ (op = "extract_entities" /\ text = <<>>) => AllEmpty

\* C11 witness: the classifier was called with a response that has no
\* 'entities' key and a non-empty text, and returned four empty lists.
C11_Witness ==
  /\ Parsed
  /\ ~response.has_entities
  /\ text # <<>>
  /\ ~ret.raised
  /\ DOMAIN ret.entities = Categories
  /\ AllEmpty

-----------------------------------------------------------------------------
(* Properties of the context of a span that ends before it begins *)

NegativeLength(e) ==
  /\ e.begin.t = "int"
  /\ e.end.t = "int"
  /\ e.end.n < e.begin.n

\* C12: the record of an accepted entity whose 'end' is smaller than its
\* 'begin' has the context of a zero-length span at the same begin offset,
\* _extract_context(sourceText, begin, 0, 200).
C12_NegativeLengthAsZero ==
  (Parsed /\ ~ret.raised) =>
    \A r \in AllRecords :
      NegativeLength(SourceOf(r)) =>
        r.context = JStr(_extract_context(text, SourceOf(r).begin.n, 0,
                                          ParseContextWindow))

====
